---- MODULE Spec2Model ----
(***************************************************************************)
(* Model of vastligo/clustering.py: the script that loads a target        *)
(* catalogue, builds the complete-linkage merge tree, decodes it with     *)
(* extract_levels and selects pointings with do_clustering.               *)
(*                                                                         *)
(* Numbers.  Angles are integers in micro-degrees.  Dimensionless reals   *)
(* (sensitivities, integration-time multipliers) are fixed-point integers *)
(* with unit 1/Scale.  NaN is a distinguished value outside both ranges.  *)
(*                                                                         *)
(* Geometry.  The catalogues of the model lie on the celestial equator    *)
(* (dec = 0), so a position is its right ascension, the separation of two *)
(* positions is the shorter arc between them, and every unit vector has   *)
(* z = 0.  The operators below give what the vector formulas of the source *)
(* evaluate to for such inputs.                                           *)
(***************************************************************************)
EXTENDS Integers, Sequences, FiniteSets, TLC

\* ------------------------------------------------------------ bounds

\* Largest catalogue the model loads.
MaxN == 4

\* ------------------------------------------------------------ numbers

Scale == 10^4            \* fixed-point unit of dimensionless reals
UDeg == 10^6             \* micro-degrees in a degree
Circle == 360 * UDeg     \* a full turn
NaN == -1                \* IEEE not-a-number (0/0 at line 127)
Unbound == -2            \* a local variable that has not been assigned yet

fwhm == 483              \* 48.3, in tenths (default of get_rad / beam_fit)
nu == 55                 \* 5.5, in tenths (default of get_rad / beam_fit)

Abs(x) == IF x < 0 THEN -x ELSE x

Range(s) == {s[i] : i \in 1..Len(s)}

RECURSIVE SqrtSearch(_, _, _)
SqrtSearch(n, lo, hi) ==
  IF lo >= hi THEN lo
  ELSE LET mid == (lo + hi + 1) \div 2
       IN IF mid * mid <= n THEN SqrtSearch(n, mid, hi)
                            ELSE SqrtSearch(n, lo, mid - 1)

\* np.sqrt on a fixed-point real; NaN for a negative or NaN argument.
Sqrt(x) == IF x = NaN \/ x < 0 THEN NaN ELSE SqrtSearch(x * Scale, 0, 46340)

RECURSIVE AtanhSeries(_, _, _, _)
AtanhSeries(t, z2, k, terms) ==
  IF terms = 0 \/ t = 0 THEN 0
  ELSE t \div k + AtanhSeries((t * z2) \div Scale, z2, k + 2, terms - 1)

\* np.log on a positive fixed-point real: 2*atanh((x-1)/(x+1)).
Log(x) ==
  LET z == (Abs(x - Scale) * Scale) \div (x + Scale)
      mag == 2 * AtanhSeries(z, (z * z) \div Scale, 1, 12)
  IN IF x >= Scale THEN mag ELSE -mag

RECURSIVE ExpSeries(_, _, _, _)
ExpSeries(t, y, k, terms) ==
  IF terms = 0 \/ t = 0 THEN 0
  ELSE t - ExpSeries((t * y) \div (k * Scale), y, k + 1, terms - 1)

\* np.exp(-y) for a fixed-point real y >= 0.
ExpNeg(y) == ExpSeries(Scale, y, 1, 16)

\* Mutation of PowNegHalf: the sign of the exponent lost (num_targets**0.5).
PowHalf(n) == SqrtSearch(n * Scale * Scale, 0, 46340)

\* num_targets**-0.5 (line 192): an integer to the power -1/2.
PowNegHalf(n) == (Scale * Scale) \div SqrtSearch(n * Scale * Scale, 0, 46340)

\* P**-2 (line 208) for a fixed-point real P > 0.
PowNeg2(P) == LET inv == (Scale * Scale) \div P IN (inv * inv) \div Scale

\* IEEE comparison a < b: false when either side is NaN.
Lt(a, b) == a # NaN /\ b # NaN /\ a < b

\* ------------------------------------------------------------ BeamModel

\* np.log(2)
log2 == Log(2 * Scale)

\* get_rad(P): the radius, in micro-degrees, at which the beam's relative
\* sensitivity is P (a fixed-point real).
get_rad(P) ==
  LET root == Sqrt(((0 - Log(P)) * Scale) \div log2)
  IN IF root = NaN THEN NaN
     ELSE LET rad == (fwhm * root) \div (2 * nu)       \* arcmin, fixed-point
          IN (rad * (UDeg \div Scale)) \div 60

\* beam_fit(x): the relative sensitivity (fixed-point) at radius x, given in
\* micro-arcminutes (the caller passes dist_from_centre*60).
beam_fit(x) ==
  LET ratio == ((x * nu) \div fwhm) \div (UDeg \div Scale)
      sq == (ratio * ratio) \div Scale
  IN ExpNeg((4 * log2 * sq) \div Scale)

\* ------------------------------------------------------------ geometry

\* Directions a vector of rounding-noise length can normalise to (an exactly
\* zero vector converts to ra = 0).
ArbDirs == {0, Circle \div 4}

\* SkyCoord.separation between two positions on the equator.
separation(a, b) ==
  IF a = NaN \/ b = NaN THEN NaN
  ELSE LET d == Abs(a - b) IN IF d > Circle \div 2 THEN Circle - d ELSE d

\* np.round(sep, 5): to the nearest 1e-5 degree (the positions of the model
\* are even, so no separation falls on a tie).
Round5(x) == ((x + 5) \div 10) * 10

calc_separation(cs) ==
  [i \in DOMAIN cs |-> [j \in DOMAIN cs |-> Round5(separation(cs[i], cs[j]))]]

\* calc_centroid of two positions: the direction of the sum of their unit
\* vectors, i.e. the bisector of the shorter arc; the sum of two antipodal
\* unit vectors is a vector of noise length.  The set of possible results.
calc_centroid(a, b) ==
  LET d == Abs(a - b)
  IN IF d = Circle \div 2 THEN ArbDirs
     ELSE IF d < Circle \div 2 THEN {(a + b) \div 2}
     ELSE {((a + b) \div 2 + Circle \div 2) % Circle}

\* calc_circumcentre of three positions.  AB = A x B is the zero vector
\* exactly when two of the three points coincide; then K = 0 and every
\* component of E is 0/0.  Three distinct points of the equator lie on the
\* unit circle of the plane z = 0, whose centre is the origin: E is a vector
\* of noise length in that plane.  The set of possible results.
calc_circumcentre(p0, p1, p2) ==
  IF p0 = p1 \/ p1 = p2 \/ p2 = p0 THEN {NaN} ELSE ArbDirs

\* np.argmax: the first index of the maximum (1-based here).
argmax(dists) ==
  CHOOSE i \in 1..Len(dists) :
    /\ \A j \in 1..Len(dists) : dists[j] <= dists[i]
    /\ \A j \in 1..(i - 1) : dists[j] < dists[i]

\* np.max over the separations of the members from centre.
max_separation(c, ms, cs) ==
  IF c = NaN THEN NaN
  ELSE LET ds == {separation(c, cs[ms[k]]) : k \in 1..Len(ms)}
       IN CHOOSE d \in ds : \A e \in ds : e <= d

\* get_centre: the set of centres the estimator can return for a cluster.
get_centre(ms, cs) ==
  UNION { LET dists == [k \in 1..Len(ms) |-> separation(c, cs[ms[k]])]
              max_dist_arg == argmax(dists)
          IN IF max_dist_arg # 1 /\ max_dist_arg # Len(dists)
             THEN calc_circumcentre(cs[ms[1]], cs[ms[max_dist_arg]], cs[ms[Len(ms)]])
             ELSE {c}
        : c \in calc_centroid(cs[ms[1]], cs[ms[Len(ms)]]) }

\* ------------------------------------------------------------ catalogues

PairSep == UDeg \div 100         \* 0.01 degrees
Step == PairSep \div 5           \* 0.002 degrees
PairGap == 5 * UDeg              \* 5 degrees

\* Pairs 0.01 degrees wide, 5 degrees apart.
PairsCatalogue(n) == [i \in 0..(n - 1) |-> (i \div 2) * PairGap + (i % 2) * PairSep]
\* Every position listed twice.
DuplicatesCatalogue(n) == [i \in 0..(n - 1) |-> (i \div 2) * Step]
\* A tight chain and, last, a single target far from all others.
IsolatedCatalogue(n) ==
  [i \in 0..(n - 1) |-> IF i = n - 1 /\ i > 0 THEN PairGap ELSE i * Step]
\* Neighbours exactly two break-even radii (of a pair) apart.
BreakEvenCatalogue(n) == [i \in 0..(n - 1) |-> i * 2 * get_rad(PowNegHalf(2))]
\* Targets facing each other across the sky, one position listed twice.
AntipodalCatalogue(n) ==
  [i \in 0..(n - 1) |-> (i % 2) * (Circle \div 2) + (i \div 3) * Step]

\* load_targets: the catalogues the model loads, of 0..MaxN targets.
Catalogues ==
  UNION { {PairsCatalogue(n), DuplicatesCatalogue(n), IsolatedCatalogue(n),
           BreakEvenCatalogue(n), AntipodalCatalogue(n)} : n \in 0..MaxN }

\* ------------------------------------------------------------ linkage

\* scipy.cluster.hierarchy.linkage, columns 0 and 1: every way of merging n
\* leaves pairwise into one tree.  Row r (0-based) creates cluster n + r from
\* two clusters that exist and have not been merged yet, in either order.
RECURSIVE LinkagesFrom(_, _, _)
LinkagesFrom(n, active, r) ==
  IF Cardinality(active) <= 1 THEN {<<>>}
  ELSE UNION { { <<p>> \o rest :
                 rest \in LinkagesFrom(n, (active \ {p[1], p[2]}) \cup {n + r}, r + 1) }
             : p \in {q \in active \X active : q[1] # q[2]} }

Linkages(n) == LinkagesFrom(n, 0..(n - 1), 0)

\* ------------------------------------------------------------ extract_levels

\* Mutation of pull: the first cluster id taken for a leaf.
pull_off_by_one(glob, labels, cls) ==
  IF glob > Cardinality(DOMAIN labels) THEN cls[glob] ELSE <<glob>>

\* lines 86-90: the members a child of a row brings: a cluster's list, or
\* the leaf itself.
pull(glob, labels, cls) ==
  IF glob > Cardinality(DOMAIN labels) - 1 THEN cls[glob] ELSE <<glob>>

RECURSIVE extract_rows(_, _, _, _)
extract_rows(row_clusters, labels, row, cls) ==
  IF row >= Len(row_clusters) THEN cls
  ELSE LET cluster_n == row + Cardinality(DOMAIN labels)
           glob1 == row_clusters[row + 1][1]
           glob2 == row_clusters[row + 1][2]
           this_clust == pull(glob1, labels, cls) \o pull(glob2, labels, cls)
       IN extract_rows(row_clusters, labels, row + 1, (cluster_n :> this_clust) @@ cls)

extract_levels(row_clusters, labels) == extract_rows(row_clusters, labels, 0, <<>>)

\* Mutation of sorted_reverse: the keys in ascending order.
RECURSIVE sorted_forward(_)
sorted_forward(S) ==
  IF S = {} THEN <<>>
  ELSE LET m == CHOOSE x \in S : \A y \in S : x <= y
       IN <<m>> \o sorted_forward(S \ {m})

\* sorted(keys, reverse=True)
RECURSIVE sorted_reverse(_)
sorted_reverse(S) ==
  IF S = {} THEN <<>>
  ELSE LET m == CHOOSE x \in S : \A y \in S : y <= x
       IN <<m>> \o sorted_reverse(S \ {m})

\* list(range(n))
range(n) == [k \in 1..n |-> k - 1]

\* ------------------------------------------------------------ state

VARIABLES
  pc,                \* where the script is
  error,             \* the exception that ended the run, or "none"
  coords,            \* target index -> position (line 222)
  seps,              \* the separation matrix (line 225)
  linked,            \* the linkage matrix (line 229)
  all_clusters,      \* cluster id -> member list (line 232)
  todo,              \* what the running for loop has still to iterate over
  assigned, clusters, clustering, centroids, int_time, cluster_info,
  c_num, members, centre, break_even_dist, dist_from_centre,
  visits             \* history: one entry per iteration of the loop of line 181

vars == <<pc, error, coords, seps, linked, all_clusters, todo, assigned, clusters,
          clustering, centroids, int_time, cluster_info, c_num, members, centre,
          break_even_dist, dist_from_centre, visits>>

inputs == <<coords, seps, linked, all_clusters>>
locals == <<c_num, members, centre, break_even_dist, dist_from_centre>>
results == <<assigned, clusters, clustering, centroids, int_time, cluster_info>>

\* len(coords)
NumTargets == Cardinality(DOMAIN coords)

\* targets['target']: the labels, one per target.
labellist == [i \in DOMAIN coords |-> i]

Init ==
  /\ pc = "calc_separation"
  /\ error = "none"
  /\ coords \in Catalogues
  /\ seps = <<>>
  /\ linked = <<>>
  /\ all_clusters = <<>>
  /\ todo = <<>>
  /\ assigned = <<>>
  /\ clusters = <<>>
  /\ clustering = <<>>
  /\ centroids = <<>>
  /\ int_time = <<>>
  /\ cluster_info = <<>>
  /\ c_num = Unbound
  /\ members = <<>>
  /\ centre = Unbound
  /\ break_even_dist = Unbound
  /\ dist_from_centre = Unbound
  /\ visits = <<>>

\* ------------------------------------------------------------ the script

\* line 225
CalcSeparation ==
  /\ pc = "calc_separation"
  /\ seps' = calc_separation(coords)
  /\ pc' = "linkage"
  /\ UNCHANGED <<error, coords, linked, all_clusters, todo, results, locals, visits>>

\* lines 226-229 on fewer than two targets: squareform gives an empty
\* condensed matrix and linkage raises ValueError on it.
LinkageFails ==
  /\ pc = "linkage"
  /\ NumTargets < 2
  /\ pc' = "error"
  /\ error' = "ValueError: empty distance matrix"
  /\ UNCHANGED <<inputs, todo, results, locals, visits>>

\* lines 226-229
Linkage ==
  /\ pc = "linkage"
  /\ NumTargets >= 2
  /\ linked' \in Linkages(NumTargets)
  /\ pc' = "extract_levels"
  /\ UNCHANGED <<error, coords, seps, all_clusters, todo, results, locals, visits>>

\* line 232
ExtractLevels ==
  /\ pc = "extract_levels"
  /\ all_clusters' = extract_levels(linked, labellist)
  /\ pc' = "do_clustering"
  /\ UNCHANGED <<error, coords, seps, linked, todo, results, locals, visits>>

\* ------------------------------------------------------------ do_clustering

\* lines 173-181: the locals, and the iterator of the first loop.
Enter ==
  /\ pc = "do_clustering"
  /\ assigned' = <<>>
  /\ clusters' = <<>>
  /\ clustering' = [i \in DOMAIN coords |-> i]
  /\ centroids' = <<>>
  /\ int_time' = [i \in DOMAIN coords |-> Scale]
  /\ cluster_info' = <<>>
  /\ todo' = sorted_reverse(DOMAIN all_clusters)
  /\ pc' = "loop"
  /\ UNCHANGED <<error, inputs, locals, visits>>

\* Mutation of overlaps: the test of line 184 never fires.
overlaps_never(ms, done) == FALSE

\* line 184
overlaps(ms, done) == Range(ms) \cap Range(done) # {}

\* Mutation of accepts: <= in place of <.
accepts_or_equal(dist, break_even) ==
  dist # NaN /\ break_even # NaN /\ dist <= break_even

\* line 198
accepts(dist, break_even) == Lt(dist, break_even)

\* Mutation of extend: the list replaced instead of extended.
extend_replace(done, ms) == ms

\* line 199: assigned.extend(members)
extend(done, ms) == done \o ms

\* Mutation of rel_time: multiplied by the group size instead of divided.
rel_time_times(P, num_targets) == PowNeg2(P) * num_targets

\* line 208
rel_time(P, num_targets) == PowNeg2(P) \div num_targets

\* lines 181-185: an iteration that ends at the continue.
VisitSkip ==
  /\ pc = "loop"
  /\ todo # <<>>
  /\ LET c == Head(todo)
         ms == all_clusters[c]
     IN /\ overlaps(ms, assigned)
        /\ c_num' = c
        /\ members' = ms
        /\ visits' = Append(visits, [c_num |-> c, outcome |-> "skipped",
                                     assigned |-> assigned, centre |-> Unbound,
                                     dist |-> Unbound, break_even |-> Unbound])
  /\ todo' = Tail(todo)
  /\ UNCHANGED <<pc, error, inputs, results, centre, break_even_dist, dist_from_centre>>

\* lines 181-211: an iteration whose cluster passes the test of line 198.
VisitAccept ==
  /\ pc = "loop"
  /\ todo # <<>>
  /\ LET c == Head(todo)
         ms == all_clusters[c]
         num_targets == Len(ms)
     IN /\ ~overlaps(ms, assigned)
        /\ \E ctr \in get_centre(ms, coords) :
             LET be == get_rad(PowNegHalf(num_targets))
                 dist == max_separation(ctr, ms, coords)
                 P == beam_fit(dist * 60)
                 rel_int_time == rel_time(P, num_targets)
             IN /\ accepts(dist, be)
                /\ c_num' = c
                /\ members' = ms
                /\ centre' = ctr
                /\ break_even_dist' = be
                /\ dist_from_centre' = dist
                /\ assigned' = extend(assigned, ms)
                /\ clusters' = Append(clusters, c)
                /\ centroids' = (c :> ctr) @@ centroids
                /\ clustering' = [i \in DOMAIN clustering |->
                                    IF i \in Range(ms) THEN c ELSE clustering[i]]
                /\ int_time' = [i \in DOMAIN int_time |->
                                  IF i \in Range(ms) THEN rel_int_time ELSE int_time[i]]
                /\ cluster_info' = (c :> [members |-> ms, centroid |-> <<ctr>>,
                                          int_time |-> rel_int_time]) @@ cluster_info
                /\ visits' = Append(visits, [c_num |-> c, outcome |-> "accepted",
                                             assigned |-> assigned, centre |-> ctr,
                                             dist |-> dist, break_even |-> be])
  /\ todo' = Tail(todo)
  /\ UNCHANGED <<pc, error, inputs>>

\* lines 181-198: an iteration whose cluster fails the test of line 198.
VisitReject ==
  /\ pc = "loop"
  /\ todo # <<>>
  /\ LET c == Head(todo)
         ms == all_clusters[c]
         num_targets == Len(ms)
     IN /\ ~overlaps(ms, assigned)
        /\ \E ctr \in get_centre(ms, coords) :
             LET be == get_rad(PowNegHalf(num_targets))
                 dist == max_separation(ctr, ms, coords)
             IN /\ ~accepts(dist, be)
                /\ c_num' = c
                /\ members' = ms
                /\ centre' = ctr
                /\ break_even_dist' = be
                /\ dist_from_centre' = dist
                /\ visits' = Append(visits, [c_num |-> c, outcome |-> "rejected",
                                             assigned |-> assigned, centre |-> ctr,
                                             dist |-> dist, break_even |-> be])
  /\ todo' = Tail(todo)
  /\ UNCHANGED <<pc, error, inputs, results>>

\* line 214: the first loop is exhausted, the second starts.
LoopEnd ==
  /\ pc = "loop"
  /\ todo = <<>>
  /\ todo' = range(NumTargets)
  /\ pc' = "sweep"
  /\ UNCHANGED <<error, inputs, results, locals, visits>>

\* line 216: the centre stored for a leftover target.
singleton_centroid(c, ms, cs) == [k \in 1..Len(ms) |-> cs[ms[k]]]

\* lines 214-216: a target no accepted cluster holds.
SweepSingleton ==
  /\ pc = "sweep"
  /\ todo # <<>>
  /\ LET c == Head(todo)
     IN /\ c \notin Range(assigned)
        /\ c_num' = c
        /\ cluster_info' = (c :> [members |-> <<c>>,
                                  centroid |-> singleton_centroid(c, members, coords),
                                  int_time |-> Scale]) @@ cluster_info
  /\ todo' = Tail(todo)
  /\ UNCHANGED <<pc, error, inputs, assigned, clusters, clustering, centroids, int_time,
                 members, centre, break_even_dist, dist_from_centre, visits>>

\* lines 214-215: a target some accepted cluster holds.
SweepAssigned ==
  /\ pc = "sweep"
  /\ todo # <<>>
  /\ Head(todo) \in Range(assigned)
  /\ c_num' = Head(todo)
  /\ todo' = Tail(todo)
  /\ UNCHANGED <<pc, error, inputs, results, members, centre, break_even_dist,
                 dist_from_centre, visits>>

\* line 218
Return ==
  /\ pc = "sweep"
  /\ todo = <<>>
  /\ pc' = "done"
  /\ UNCHANGED <<error, inputs, todo, results, locals, visits>>

Next ==
  \/ CalcSeparation
  \/ LinkageFails
  \/ Linkage
  \/ ExtractLevels
  \/ Enter
  \/ VisitSkip
  \/ VisitAccept
  \/ VisitReject
  \/ LoopEnd
  \/ SweepSingleton
  \/ SweepAssigned
  \/ Return

Spec == Init /\ [][Next]_vars

\* ------------------------------------------------------------ complete linkage

\* The targets under node id of the merge tree.
node_members(id) == IF id < NumTargets THEN {id} ELSE Range(all_clusters[id])

\* The complete-linkage distance of two nodes: their largest pairwise separation.
complete_dist(a, b) ==
  LET ds == {seps[i][j] : i \in node_members(a), j \in node_members(b)}
  IN CHOOSE d \in ds : \A e \in ds : e <= d

\* The nodes that exist and are unmerged before row r (1-based).
active_before(r) ==
  ((0..(NumTargets - 1)) \cup {NumTargets + k : k \in 0..(r - 2)})
    \ {linked[k][j] : k \in 1..(r - 1), j \in 1..2}

\* linkage(dist, method='complete'): every row merges a closest pair of the
\* nodes then active (ties and the order of the two children left open).
IsCompleteLinkage ==
  \A r \in 1..Len(linked) :
    \A a, b \in active_before(r) :
      a # b => complete_dist(linked[r][1], linked[r][2]) <= complete_dist(a, b)

\* The scenario of two pairs: 0.01 degrees within a pair, 5 degrees between.
ScenarioDone ==
  /\ pc = "done"
  /\ coords = PairsCatalogue(4)
  /\ IsCompleteLinkage

\* ------------------------------------------------------------ claims

RecordMembers(k) == Range(cluster_info[k].members)

IsAncestor(a, c) ==
  a # c /\ Range(all_clusters[c]) \subseteq Range(all_clusters[a])

Tested(e) == e.outcome # "skipped"

\* radius_for_sensitivity(num_members^-0.5), tabulated.
BreakEvenRadius == [n \in 1..(MaxN + 1) |-> get_rad(PowNegHalf(n))] @@ <<>>

PassesThreshold(e) ==
  e.dist # NaN /\ e.dist < BreakEvenRadius[Len(all_clusters[e.c_num])]

\* C1: the records do_clustering returns partition the target indices: their
\* member lists cover 0..N-1 and no index is in two records (or twice in one).
C1_RecordsPartitionTargets ==
  pc = "done" =>
    /\ UNION {RecordMembers(k) : k \in DOMAIN cluster_info} = 0..(NumTargets - 1)
    /\ \A k1, k2 \in DOMAIN cluster_info :
         k1 # k2 => RecordMembers(k1) \cap RecordMembers(k2) = {}
    /\ \A k \in DOMAIN cluster_info :
         Len(cluster_info[k].members) = Cardinality(RecordMembers(k))

C1_Witness ==
  /\ pc = "done"
  /\ NumTargets >= 3
  /\ \E k \in DOMAIN cluster_info : k >= NumTargets
  /\ \E k \in DOMAIN cluster_info : k < NumTargets
  /\ \E i \in 1..Len(visits) : visits[i].outcome = "skipped"

\* C2: after the pass every unassigned target has its own record: member list
\* exactly that index, multiplier exactly 1.0, centre its own position.
C2_SingletonOwnPosition ==
  pc = "done" =>
    \A i \in DOMAIN coords \ Range(assigned) :
      /\ i \in DOMAIN cluster_info
      /\ cluster_info[i].members = <<i>>
      /\ cluster_info[i].int_time = Scale
      /\ cluster_info[i].centroid = <<coords[i]>>

\* C3: with fewer than 2 targets the run ends in the "insufficient targets"
\* condition, before clustering or selection, and in no other error.
C3_InsufficientTargets ==
  NumTargets < 2 =>
    /\ pc \in {"calc_separation", "linkage", "error"}
    /\ pc = "error" => error = "insufficient targets"

\* C4: every step leaves the assigned set a superset of what it was, and a
\* visit that ends rejected or skipped changes neither the assigned set nor
\* the recorded pointings.
C4_AssignedOnlyGrows ==
  [][ /\ Range(assigned) \subseteq Range(assigned')
      /\ (Len(visits') = Len(visits) + 1
            /\ visits'[Len(visits')].outcome # "accepted")
           => (assigned' = assigned /\ cluster_info' = cluster_info) ]_vars

C4_Witness ==
  /\ assigned # <<>>
  /\ \E i, j, k \in 1..Len(visits) :
       /\ i < k
       /\ visits[i].outcome = "accepted"
       /\ visits[j].outcome = "rejected"
       /\ visits[k].outcome = "skipped"

\* C5: extract_levels on the N-1 rows of a linkage matrix over N leaves gives
\* exactly the clusters N..2N-2, and the root 2N-2 lists every index 0..N-1
\* exactly once.
C5_ExtractLevelsComplete ==
  pc \notin {"calc_separation", "linkage", "extract_levels", "error"} =>
    LET n == NumTargets
    IN /\ DOMAIN all_clusters = n..(2 * n - 2)
       /\ Cardinality(DOMAIN all_clusters) = n - 1
       /\ Len(all_clusters[2 * n - 2]) = n
       /\ Range(all_clusters[2 * n - 2]) = 0..(n - 1)

C5_Witness ==
  /\ pc = "do_clustering"
  /\ NumTargets >= 4
  /\ \E r \in 1..Len(linked) : linked[r][1] >= NumTargets /\ linked[r][2] >= NumTargets

\* C6 as stated: in the two-pair scenario each accepted pair pointing has a
\* multiplier greater than 1.0.
C6_PairMultiplierAboveOne ==
  ScenarioDone =>
    \A k \in DOMAIN cluster_info :
      Len(cluster_info[k].members) = 2 => cluster_info[k].int_time > Scale

\* C6 as amended: in the two-pair scenario each accepted pair pointing has a
\* multiplier below 1.0 (and at least 0.5), the multiplier being
\* sensitivity_at(max_distance)^-2 / num_members with max_distance half the
\* pair's separation.
C6_PairMultiplierBelowOne ==
  ScenarioDone =>
    \A k \in DOMAIN cluster_info :
      Len(cluster_info[k].members) = 2 =>
        LET t == cluster_info[k].int_time
            inv_sq == PowNeg2(beam_fit((PairSep \div 2) * 60))
        IN /\ t < Scale
           /\ 2 * t >= Scale
           /\ 2 * t <= inv_sq /\ inv_sq < 2 * t + 2

C6_Witness ==
  /\ ScenarioDone
  /\ Cardinality({k \in DOMAIN cluster_info : Len(cluster_info[k].members) = 2}) = 2

\* C7: in the two-pair scenario the selector returns exactly two records, one
\* per pair: the 4-member root is rejected because its maximum distance is not
\* below the break-even radius for 4 members, both 2-member clusters are then
\* accepted, and there is no singleton record.
C7_ScenarioTwoPointings ==
  ScenarioDone =>
    /\ DOMAIN cluster_info = {4, 5}
    /\ {RecordMembers(k) : k \in DOMAIN cluster_info} = {{0, 1}, {2, 3}}
    /\ Len(visits) = 3
    /\ visits[1].c_num = 6 /\ visits[1].outcome = "rejected"
    /\ visits[1].dist >= BreakEvenRadius[4]
    /\ visits[2].outcome = "accepted" /\ visits[3].outcome = "accepted"

C7_Witness ==
  /\ ScenarioDone
  /\ Cardinality(DOMAIN cluster_info) = 2

\* The first and last member of a cluster are antipodal, or nearly so.
FirstLastAntipodal(ms) ==
  separation(coords[ms[1]], coords[ms[Len(ms)]]) >= Circle \div 2 - Step

\* A step that visits a cluster, none of whose members is assigned, whose
\* centre computation is degenerate: the circumcentre's cross product has
\* length zero (every component of E is 0/0), or the first and last member are
\* antipodal or nearly so.
DegenerateVisit ==
  /\ pc = "loop"
  /\ todo # <<>>
  /\ Len(visits') = Len(visits) + 1
  /\ Range(all_clusters[Head(todo)]) \cap Range(assigned) = {}
  /\ (centre' = NaN \/ FirstLastAntipodal(all_clusters[Head(todo)]))

\* The cluster of the step is rejected and the pass goes on.
RejectedAndContinues ==
  /\ assigned' = assigned
  /\ clusters' = clusters
  /\ cluster_info' = cluster_info
  /\ centroids' = centroids
  /\ error' = "none"
  /\ pc' = "loop"
  /\ todo' = Tail(todo)

\* C8: a visit whose centre computation is degenerate detects the condition for
\* that cluster (the visit ends with the cluster marked: the one mark the
\* selector's state can carry is a NaN centre and distance) and treats the
\* cluster as rejected: nothing is assigned or recorded, and the pass goes on
\* with the remaining clusters.
C8_DegenerateGeometryDetected ==
  [][ DegenerateVisit =>
        (centre' = NaN /\ dist_from_centre' = NaN /\ RejectedAndContinues) ]_vars

\* What holds of C8: a degenerate visit ends with the cluster rejected and the
\* pass going on, because the test of line 198 fails on the distance it gets
\* (NaN, or at least a quarter turn), not because anything is detected.
DegenerateGeometryRejected ==
  [][ DegenerateVisit =>
        /\ RejectedAndContinues
        /\ (dist_from_centre' = NaN \/ dist_from_centre' >= Circle \div 4 - Step) ]_vars

DegenerateGeometryReached ==
  /\ pc = "done"
  /\ error = "none"
  /\ cluster_info # <<>>
  /\ \E i \in 1..Len(visits) : Tested(visits[i]) /\ visits[i].centre = NaN
  /\ \E i \in 1..Len(visits) :
       /\ Tested(visits[i])
       /\ visits[i].centre # NaN
       /\ FirstLastAntipodal(all_clusters[visits[i].c_num])

\* C9: the merge nodes are visited once each in strictly descending id order,
\* and a visited cluster gets a record iff, when visited, none of its members
\* was assigned and its maximum distance from the estimated centre was
\* strictly below the break-even radius (equal is rejected).
C9_VisitOrderAndAcceptance ==
  /\ \A i \in 1..Len(visits) : visits[i].c_num = 2 * NumTargets - 1 - i
  /\ pc \in {"sweep", "done"} => Len(visits) = NumTargets - 1
  /\ \A i \in 1..Len(visits) :
       LET e == visits[i]
           ms == all_clusters[e.c_num]
           free == Range(ms) \cap Range(e.assigned) = {}
       IN /\ free => /\ e.centre \in get_centre(ms, coords)
                     /\ e.dist = max_separation(e.centre, ms, coords)
          /\ (e.c_num \in DOMAIN cluster_info) <=> (free /\ PassesThreshold(e))

C9_Witness ==
  /\ pc = "done"
  /\ \E i \in 1..Len(visits) :
       /\ visits[i].outcome = "rejected"
       /\ visits[i].dist = BreakEvenRadius[Len(all_clusters[visits[i].c_num])]
       /\ visits[i].c_num \notin DOMAIN cluster_info

\* C10: accepted clusters are maximal: every ancestor of an accepted cluster
\* was visited before it and failed the threshold test; a cluster is skipped
\* only under an accepted ancestor; no accepted cluster is an ancestor of
\* another.
C10_AcceptedAreMaximal ==
  /\ \A j \in 1..Len(visits) :
       visits[j].outcome = "accepted" =>
         \A a \in DOMAIN all_clusters :
           IsAncestor(a, visits[j].c_num) =>
             /\ a > visits[j].c_num
             /\ \E i \in 1..(j - 1) :
                  /\ visits[i].c_num = a
                  /\ Tested(visits[i])
                  /\ ~PassesThreshold(visits[i])
                  /\ a \notin DOMAIN cluster_info
  /\ \A j \in 1..Len(visits) :
       visits[j].outcome = "skipped" =>
         \E i \in 1..(j - 1) :
           /\ visits[i].outcome = "accepted"
           /\ IsAncestor(visits[i].c_num, visits[j].c_num)
  /\ \A c1, c2 \in Range(clusters) : ~IsAncestor(c1, c2)

C10_Witness ==
  /\ pc = "done"
  /\ \E j \in 1..Len(visits) :
       /\ visits[j].outcome = "accepted"
       /\ \E a \in DOMAIN all_clusters : IsAncestor(a, visits[j].c_num)
  /\ \E j \in 1..Len(visits) : visits[j].outcome = "skipped"

====
